---- MODULE Spec2Model ----
(***************************************************************************)
(* Witness Protocol: attestation discovery (discovery-patterns.ts) and     *)
(* operator-record resolution (reading and validating records).            *)
(*                                                                         *)
(* Strings that the code concatenates are sequences of tokens, so that     *)
(* the template literal of addAttestations is a real concatenation.        *)
(* Every await of the code is one step: the action of a step runs the      *)
(* code from the point where the awaited call settles up to the next       *)
(* await (or the return).                                                  *)
(***************************************************************************)
EXTENDS Integers, Sequences, FiniteSets, TLC

VARIABLES
    options,       \* DiscoveryOptions of the invocation
    pc,            \* the await discoverAttestations is suspended at
    witnesses,     \* local `witnesses` of discoverAttestations
    idx,           \* position in the witness / registry / indexer loop
    chanAtts,      \* local `attestations` of discoverThroughSocialGraph / discoverThroughRegistry
    members,       \* local `witnesses` Set of discoverThroughRegistry, in insertion order
    midx,          \* position in the registered-witness loop
    attestations,  \* DiscoveryResult.attestations
    sources,       \* DiscoveryResult.sources
    warnings,      \* DiscoveryResult.warnings
    seenUris,      \* the Set seenUris
    fetchLog,      \* history: every remote call made, with its outcome
    opRepo,        \* the at.witness.operator collection of the agent's repository
    opFetch,       \* outcome of listRecords in getOperatorRecords
    opPc,          \* position of getCurrentOperator
    opResult,      \* value getCurrentOperator resolved with
    opWarnings,    \* warnings getCurrentOperator surfaced to its caller
    opRecords,     \* local `records` array of getCurrentOperator when it returns
    callFn,        \* the exported pure function being called (validators, summarizeAttestations)
    callArgs,      \* its arguments, as the caller sees them
    callResult,    \* <<>> until it returns, then <<the value returned>>
    pds            \* the records of the publishing agent's repository, in the order created

discVars == <<options, pc, witnesses, idx, chanAtts, members, midx,
              attestations, sources, warnings, seenUris, fetchLog>>
opVars == <<opRepo, opFetch, opPc, opResult, opWarnings, opRecords>>
callVars == <<callFn, callArgs, callResult>>
vars == <<options, pc, witnesses, idx, chanAtts, members, midx,
          attestations, sources, warnings, seenUris, fetchLog,
          opRepo, opFetch, opPc, opResult, opWarnings, opRecords,
          callFn, callArgs, callResult, pds>>

----------------------------------------------------------------------------
(* Bounds of the model *)

\* knownWitnesses, registries and indexers together name at most this many targets
MaxTargets == 2

\* at most this many operator records in the agent's repository
MaxRecords == 2

\* at most this many attestations in the list handed to summarizeAttestations
MaxAttestations == 3

\* summarizeAttestations is called at most this many times on the same arguments
MaxCalls == 2

\* at most this many records are created in the publishing agent's repository
MaxPublished == 3

----------------------------------------------------------------------------
(* Values *)

Target == <<"did", ":", "plc", ":", "example-bot">>
OtherAgent == <<"did", ":", "plc", ":", "other-bot">>

W1 == "did:plc:trusted-witness-1"
W2 == "did:plc:trusted-witness-2"
WitnessDids == {W1, W2}

AllRegistries == <<"did:plc:witness-registry", "did:plc:registry-2",
                   "did:plc:registry-3", "did:plc:registry-4">>
AllIndexers == <<"https://witness-index.example.com", "https://index-2.example.com",
                 "https://index-3.example.com", "https://index-4.example.com">>

\* WitnessAttestation values found in witness repositories
A1 == [type |-> "at.witness.attestation", subjectDid |-> Target,
       claim |-> <<"helpful">>, createdAt |-> <<"2026-01-10T10:00:00Z">>,
       sentiment |-> "positive"]
A2 == [type |-> "at.witness.attestation", subjectDid |-> Target,
       claim |-> <<"wrong pricing">>, createdAt |-> <<"2026-01-15T14:30:00Z">>,
       sentiment |-> "negative", claimCategory |-> "subjective"]
O1 == [type |-> "at.witness.attestation", subjectDid |-> OtherAgent,
       claim |-> <<"helpful">>, createdAt |-> <<"2026-01-10T10:00:00Z">>,
       sentiment |-> "positive"]

\* a record about the target that validateAttestation rejects
M1 == [type |-> "at.witness.attestation", subjectDid |-> Target,
       claim |-> <<"rude">>, createdAt |-> <<"2026-01-20T09:00:00Z">>,
       sentiment |-> "angry"]

\* two records about the target whose claim and createdAt differ but concatenate alike
K1 == [type |-> "at.witness.attestation", subjectDid |-> Target,
       claim |-> <<"note", ":", "helpful">>, createdAt |-> <<"2026-01-10">>]
K2 == [type |-> "at.witness.attestation", subjectDid |-> Target,
       claim |-> <<"note">>, createdAt |-> <<"helpful", ":", "2026-01-10">>]

\* what listRecords of at.witness.attestation may hold in response.data.records[k].value
AttestationPages == { <<>>, <<A1>>, <<O1, A2, M1, A1, K1, K2>> }

\* what listRecords of at.witness.registry may hold in response.data.records[k].value
RegistryPages == { <<>>,
                   << [witnesses |-> <<W1>>] >>,
                   << [witnesses |-> <<W2, W1>>], [name |-> "no list"], [witnesses |-> <<W1>>] >> }

\* IndexerResponse.attestations
IA1 == [uri |-> <<W1, 1>>, witnessDid |-> W1, subjectDid |-> Target,
        claim |-> <<"helpful">>, createdAt |-> <<"2026-01-10T10:00:00Z">>,
        sentiment |-> "positive"]
IA2 == [uri |-> <<W2, 2>>, witnessDid |-> W2, subjectDid |-> Target,
        claim |-> <<"wrong pricing">>, createdAt |-> <<"2026-01-15T14:30:00Z">>]
IndexerPages == { <<>>, <<IA1>>, <<IA2, IA1>> }

\* reply parents found in the target's posts (record.reply.parent.uri.split('/')[2])
PostPages == { <<>>, << [parentDid |-> W2] >>,
               << [text |-> "no reply"], [parentDid |-> "alice.example"],
                  [parentDid |-> W1], [parentDid |-> W2] >> }

\* parentDid.startsWith('did:')
StartsWithDid(s) == s \in WitnessDids

----------------------------------------------------------------------------
(* Helpers *)

RECURSIVE SeqsUpTo(_, _)
SeqsUpTo(S, n) ==
    IF n = 0 THEN { <<>> }
    ELSE LET shorter == SeqsUpTo(S, n - 1)
         IN shorter \cup { Append(s, x) : s \in shorter, x \in S }

Prefixes(s, n) == { SubSeq(s, 1, k) : k \in 0..(IF n < Len(s) THEN n ELSE Len(s)) }

RECURSIVE SelectSeqBy(_, _)
\* Array.prototype.filter with the predicate "subjectDid === t"
SelectSeqBy(s, t) ==
    IF s = <<>> THEN <<>>
    ELSE LET rest == SelectSeqBy(Tail(s), t)
         IN IF "subjectDid" \in DOMAIN Head(s) /\ Head(s).subjectDid = t
            THEN <<Head(s)>> \o rest ELSE rest

RECURSIVE Unique(_)
\* insertion order of a JavaScript Set built from the sequence
Unique(s) ==
    IF s = <<>> THEN <<>>
    ELSE LET init == Unique(SubSeq(s, 1, Len(s) - 1))
             last == s[Len(s)]
         IN IF \E k \in 1..Len(init) : init[k] = last THEN init ELSE Append(init, last)

RECURSIVE Flatten(_)
Flatten(ss) == IF ss = <<>> THEN <<>> ELSE Head(ss) \o Flatten(Tail(ss))

----------------------------------------------------------------------------
(* discoverAttestations and the channel functions it awaits *)

Truthy(b) == b = "true"

\* a.subjectDid, a.claim, a.createdAt inside the template literal
Field(a, f) == IF f \in DOMAIN a THEN a[f] ELSE <<"undefined">>

\* const key = `${a.subjectDid}:${a.claim}:${a.createdAt}`
KeyOf(a) == Field(a, "subjectDid") \o <<":">> \o Field(a, "claim") \o <<":">> \o Field(a, "createdAt")

\* keeps a record only while nothing has been seen yet
KeepsFirstOnly(dedup, seen, key) == ~dedup \/ seen = {}

\* the condition under which addAttestations keeps a record
Keeps(dedup, seen, key) == ~dedup \/ key \notin seen

RECURSIVE AddAttestations(_, _, _, _)
\* the helper addAttestations, as a fold over newAttestations
AddAttestations(st, newAttestations, source, dedup) ==
    IF newAttestations = <<>> THEN st
    ELSE LET a == Head(newAttestations)
             key == KeyOf(a)
             st2 == IF Keeps(dedup, st.seenUris, key)
                    THEN [attestations |-> Append(st.attestations, a),
                          sources |-> [st.sources EXCEPT ![source] = @ + 1],
                          seenUris |-> st.seenUris \cup {key}]
                    ELSE st
         IN AddAttestations(st2, Tail(newAttestations), source, dedup)

\* addAttestations applied to the result under construction
Merged(collected, source) ==
    AddAttestations([attestations |-> attestations, sources |-> sources, seenUris |-> seenUris],
                    collected, source, Truthy(options.deduplicate))

\* .map(r => ({ ...r.value, _uri: r.uri, _witnessDid: witnessDid }))
Tagged(v, uri, w) ==
    [f \in DOMAIN v \cup {"_uri", "_witnessDid"} |->
        IF f = "_uri" THEN uri ELSE IF f = "_witnessDid" THEN w ELSE v[f]]

\* a variant without the filter on subjectDid
SocialRelevantUnfiltered(page, w) ==
    [k \in 1..Len(page) |-> Tagged(page[k], <<w, k>>, w)]

\* `relevant` of discoverThroughSocialGraph
SocialRelevant(page, w) ==
    SelectSeqBy([k \in 1..Len(page) |-> Tagged(page[k], <<w, k>>, w)], Target)

\* `relevant` of discoverThroughRegistry
RegistryRelevant(page) == SelectSeqBy(page, Target)

\* the witnesses Set built from the registry's records
RegisteredWitnesses(page) ==
    Unique(Flatten([k \in 1..Len(page) |->
                      IF "witnesses" \in DOMAIN page[k] THEN page[k].witnesses ELSE <<>>]))

RECURSIVE ReplyParents(_)
\* the DIDs findPotentialWitnesses adds to its Set
ReplyParents(posts) ==
    IF posts = <<>> THEN <<>>
    ELSE LET p == Head(posts)
         IN (IF "parentDid" \in DOMAIN p /\ StartsWithDid(p.parentDid) THEN <<p.parentDid>> ELSE <<>>)
            \o ReplyParents(Tail(posts))

\* the catch blocks: whether the error leaves the function, and the warning pushed
SocialCatch == [rethrow |-> FALSE]
PostsCatch == [rethrow |-> FALSE]
MemberCatch == [rethrow |-> FALSE]
RegistryCatch == [rethrow |-> FALSE]
OuterRegistryCatch(registryDid) == [rethrow |-> FALSE, warning |-> <<"Registry", registryDid, "unavailable">>]
OuterSocialCatch == [rethrow |-> FALSE, warning |-> <<"Could not discover witnesses from social graph">>]
IndexerCatchAnonymous(baseUrl) == [rethrow |-> FALSE, warning |-> <<"Indexer", "unavailable">>]
IndexerCatchMissing(baseUrl) == [rethrow |-> TRUE, warning |-> <<"Indexer", baseUrl, "unavailable">>]
IndexerCatch(baseUrl) == [rethrow |-> FALSE, warning |-> <<"Indexer", baseUrl, "unavailable">>]

AfterRegistries == IF Len(options.indexers) > 0 THEN "indexer" ELSE "done"
AfterSocial == IF Len(options.registries) > 0 THEN "registry" ELSE AfterRegistries

\* history of the remote calls: outcome is "ok", "unreachable", "status" or "malformed"
Log(kind, target, outcome, relevant) ==
    fetchLog' = Append(fetchLog, [kind |-> kind, target |-> target, outcome |-> outcome, relevant |-> relevant])

Throw ==
    /\ pc' = "thrown"
    /\ UNCHANGED <<witnesses, idx, chanAtts, members, midx, attestations, sources, warnings, seenUris>>

\* lines 301-304 once the witness list is known
EnterSocial(ws) ==
    /\ witnesses' = ws
    /\ pc' = IF Len(ws) > 0 THEN "social" ELSE AfterSocial
    /\ idx' = 1
    /\ UNCHANGED <<chanAtts, members, midx, attestations, sources, warnings, seenUris>>

\* findPotentialWitnesses resolved: lines 294-295
FindWitnessesOk ==
    /\ pc = "findWitnesses"
    /\ \E posts \in PostPages :
          /\ Log("posts", "app.bsky.feed.post", "ok", <<>>)
          /\ EnterSocial(Unique(witnesses \o Unique(ReplyParents(posts))))
    /\ UNCHANGED <<options, opRepo, opFetch, opPc, opResult, opWarnings, opRecords, callVars, pds>>

\* listRecords of the target's posts failed: catch of findPotentialWitnesses, then lines 296-298
FindWitnessesFail ==
    /\ pc = "findWitnesses"
    /\ Log("posts", "app.bsky.feed.post", "unreachable", <<>>)
    /\ IF ~PostsCatch.rethrow THEN EnterSocial(Unique(witnesses))
       ELSE IF ~OuterSocialCatch.rethrow
            THEN /\ warnings' = warnings \o <<OuterSocialCatch.warning>>
                 /\ pc' = IF Len(witnesses) > 0 THEN "social" ELSE AfterSocial
                 /\ UNCHANGED <<witnesses, idx, chanAtts, members, midx, attestations, sources, seenUris>>
            ELSE Throw
    /\ UNCHANGED <<options, opRepo, opFetch, opPc, opResult, opWarnings, opRecords, callVars, pds>>

\* one witness handled by discoverThroughSocialGraph; after the last one, line 303
SocialNext(collected) ==
    IF idx < Len(witnesses)
    THEN /\ idx' = idx + 1
         /\ chanAtts' = collected
         /\ UNCHANGED <<pc, attestations, sources, seenUris>>
    ELSE LET st == Merged(collected, "social")
         IN /\ attestations' = st.attestations
            /\ sources' = st.sources
            /\ seenUris' = st.seenUris
            /\ pc' = AfterSocial
            /\ idx' = 1
            /\ chanAtts' = <<>>

SocialFetchOk ==
    /\ pc = "social"
    /\ \E page \in AttestationPages :
          LET relevant == SocialRelevant(page, witnesses[idx])
          IN /\ Log("witness", witnesses[idx], "ok", relevant)
             /\ SocialNext(chanAtts \o relevant)
    /\ UNCHANGED <<options, witnesses, members, midx, warnings, opRepo, opFetch, opPc, opResult, opWarnings, opRecords, callVars, pds>>

SocialFetchFail ==
    /\ pc = "social"
    /\ Log("witness", witnesses[idx], "unreachable", <<>>)
    /\ IF ~SocialCatch.rethrow
       THEN SocialNext(chanAtts) /\ UNCHANGED <<witnesses, members, midx, warnings>>
       ELSE Throw
    /\ UNCHANGED <<options, opRepo, opFetch, opPc, opResult, opWarnings, opRecords, callVars, pds>>

\* the for loop over options.registries moves on (line 307)
NextRegistry ==
    IF idx < Len(options.registries)
    THEN pc' = "registry" /\ idx' = idx + 1
    ELSE pc' = AfterRegistries /\ idx' = 1

\* discoverThroughRegistry returned `collected`: line 310, then the loop moves on
RegistryReturn(collected) ==
    LET st == Merged(collected, "registry")
    IN /\ attestations' = st.attestations
       /\ sources' = st.sources
       /\ seenUris' = st.seenUris
       /\ chanAtts' = <<>>
       /\ members' = <<>>
       /\ midx' = 1
       /\ NextRegistry

\* listRecords of the registry resolved: lines 128-138
RegistryFetchOk ==
    /\ pc = "registry"
    /\ \E page \in RegistryPages :
          LET ws == RegisteredWitnesses(page)
          IN /\ Log("registry", options.registries[idx], "ok", <<>>)
             /\ IF Len(ws) > 0
                THEN /\ members' = ws
                     /\ midx' = 1
                     /\ chanAtts' = <<>>
                     /\ pc' = "member"
                     /\ UNCHANGED <<idx, attestations, sources, seenUris>>
                ELSE RegistryReturn(<<>>)
    /\ UNCHANGED <<options, witnesses, warnings, opRepo, opFetch, opPc, opResult, opWarnings, opRecords, callVars, pds>>

\* listRecords of the registry failed: catch of lines 156-158, then lines 310-313
RegistryFetchFail ==
    /\ pc = "registry"
    /\ Log("registry", options.registries[idx], "unreachable", <<>>)
    /\ IF ~RegistryCatch.rethrow
       THEN RegistryReturn(<<>>) /\ UNCHANGED warnings
       ELSE IF ~OuterRegistryCatch(options.registries[idx]).rethrow
            THEN /\ warnings' = Append(warnings, OuterRegistryCatch(options.registries[idx]).warning)
                 /\ NextRegistry
                 /\ UNCHANGED <<chanAtts, members, midx, attestations, sources, seenUris>>
            ELSE /\ pc' = "thrown"
                 /\ UNCHANGED <<idx, chanAtts, members, midx, attestations, sources, warnings, seenUris>>
    /\ UNCHANGED <<options, witnesses, opRepo, opFetch, opPc, opResult, opWarnings, opRecords, callVars, pds>>

\* one registered witness handled (lines 138-154); after the last one the function returns
MemberNext(collected) ==
    IF midx < Len(members)
    THEN /\ midx' = midx + 1
         /\ chanAtts' = collected
         /\ UNCHANGED <<pc, idx, members, attestations, sources, seenUris>>
    ELSE RegistryReturn(collected)

MemberFetchOk ==
    /\ pc = "member"
    /\ \E page \in AttestationPages :
          LET relevant == RegistryRelevant(page)
          IN /\ Log("member", members[midx], "ok", relevant)
             /\ MemberNext(chanAtts \o relevant)
    /\ UNCHANGED <<options, witnesses, warnings, opRepo, opFetch, opPc, opResult, opWarnings, opRecords, callVars, pds>>

MemberFetchFail ==
    /\ pc = "member"
    /\ Log("member", members[midx], "unreachable", <<>>)
    /\ IF ~MemberCatch.rethrow
       THEN MemberNext(chanAtts) /\ UNCHANGED warnings
       ELSE IF ~RegistryCatch.rethrow
            THEN RegistryReturn(chanAtts) /\ UNCHANGED warnings
            ELSE /\ pc' = "thrown"
                 /\ UNCHANGED <<idx, chanAtts, members, midx, attestations, sources, warnings, seenUris>>
    /\ UNCHANGED <<options, witnesses, opRepo, opFetch, opPc, opResult, opWarnings, opRecords, callVars, pds>>

\* the for loop over options.indexers moves on (line 317), or the function returns (line 328)
NextIndexer ==
    IF idx < Len(options.indexers)
    THEN pc' = "indexer" /\ idx' = idx + 1
    ELSE pc' = "done" /\ idx' = 1

\* a variant that leaves the indexer's attestations uncounted
IndexerCountNone(response) == 0

\* what a successful indexer response adds to sources.indexer (line 322)
IndexerCount(response) == Len(response)

\* discoverThroughIndexer resolved with response.json(): line 322
IndexerOk ==
    /\ pc = "indexer"
    /\ \E response \in IndexerPages :
          /\ Log("indexer", options.indexers[idx], "ok", response)
          /\ sources' = [sources EXCEPT !.indexer = @ + IndexerCount(response)]
    /\ NextIndexer
    /\ UNCHANGED <<options, witnesses, chanAtts, members, midx, attestations, warnings, seenUris,
                   opRepo, opFetch, opPc, opResult, opWarnings, opRecords, callVars, pds>>

\* what the catch of lines 323-325 does
IndexerFailed ==
    IF ~IndexerCatch(options.indexers[idx]).rethrow
    THEN /\ warnings' = Append(warnings, IndexerCatch(options.indexers[idx]).warning)
         /\ NextIndexer
         /\ UNCHANGED <<witnesses, chanAtts, members, midx, attestations, sources, seenUris>>
    ELSE Throw

\* !response.ok: discoverThroughIndexer throws `Indexer error: ${response.status}` (lines 225-227)
IndexerStatus ==
    /\ pc = "indexer"
    /\ Log("indexer", options.indexers[idx], "status", <<>>)
    /\ IndexerFailed
    /\ UNCHANGED <<options, opRepo, opFetch, opPc, opResult, opWarnings, opRecords, callVars, pds>>

\* fetch itself rejects (host unreachable)
IndexerUnreachable ==
    /\ pc = "indexer"
    /\ Log("indexer", options.indexers[idx], "unreachable", <<>>)
    /\ IndexerFailed
    /\ UNCHANGED <<options, opRepo, opFetch, opPc, opResult, opWarnings, opRecords, callVars, pds>>

\* a success status whose body is not an IndexerResponse: response.json() rejects, or reading
\* response.attestations.length throws before sources.indexer is assigned (line 322)
IndexerMalformed ==
    /\ pc = "indexer"
    /\ Log("indexer", options.indexers[idx], "malformed", <<>>)
    /\ IndexerFailed
    /\ UNCHANGED <<options, opRepo, opFetch, opPc, opResult, opWarnings, opRecords, callVars, pds>>

\* the options a caller may pass
OptionSets ==
    { [knownWitnesses |-> kw, discoverWitnessesSocially |-> soc,
       registries |-> rs, indexers |-> ixs, deduplicate |-> d] :
         kw \in SeqsUpTo(WitnessDids, MaxTargets), soc \in BOOLEAN,
         rs \in Prefixes(AllRegistries, MaxTargets), ixs \in Prefixes(AllIndexers, MaxTargets),
         d \in {"true", "false", "undefined"} }

\* discoverAttestations is called: lines 272-275 and 290, up to the first await
DiscoveryInit ==
    /\ options \in { o \in OptionSets :
                       Len(o.knownWitnesses) + Len(o.registries) + Len(o.indexers) <= MaxTargets }
    /\ witnesses = options.knownWitnesses
    /\ pc = IF options.discoverWitnessesSocially THEN "findWitnesses"
            ELSE IF Len(options.knownWitnesses) > 0 THEN "social"
            ELSE AfterSocial
    /\ idx = 1
    /\ chanAtts = <<>>
    /\ members = <<>>
    /\ midx = 1
    /\ attestations = <<>>
    /\ sources = [social |-> 0, registry |-> 0, indexer |-> 0]
    /\ warnings = <<>>
    /\ seenUris = {}
    /\ fetchLog = <<>>

OperatorIdle ==
    /\ opRepo = <<>>
    /\ opFetch = "none"
    /\ opPc = "idle"
    /\ opResult = <<>>
    /\ opWarnings = <<>>
    /\ opRecords = <<>>

\* no pure function is being called
CallIdle ==
    /\ callFn = "none"
    /\ callArgs = <<>>
    /\ callResult = <<>>

\* nothing has been published
RepositoryIdle == pds = <<>>

Init == DiscoveryInit /\ OperatorIdle /\ CallIdle /\ RepositoryIdle

Next ==
    \/ FindWitnessesOk
    \/ FindWitnessesFail
    \/ SocialFetchOk
    \/ SocialFetchFail
    \/ RegistryFetchOk
    \/ RegistryFetchFail
    \/ MemberFetchOk
    \/ MemberFetchFail
    \/ IndexerOk
    \/ IndexerStatus
    \/ IndexerUnreachable
    \/ IndexerMalformed

Spec == Init /\ [][Next]_vars

----------------------------------------------------------------------------
(* discoverAttestations called with known witnesses only *)

\* options name nothing but knownWitnesses: lines 301-304 are the whole invocation
SocialInit ==
    /\ RepositoryIdle
    /\ DiscoveryInit
    /\ OperatorIdle
    /\ CallIdle
    /\ ~options.discoverWitnessesSocially
    /\ Len(options.registries) = 0
    /\ Len(options.indexers) = 0

KnownWitnessesNext ==
    \/ SocialFetchOk
    \/ SocialFetchFail

SocialSpec == SocialInit /\ [][KnownWitnessesNext]_vars

----------------------------------------------------------------------------
(* discoverAttestations when a remote call may never settle *)

\* the remote call discoverAttestations is suspended at
AwaitedKind ==
    CASE pc = "findWitnesses" -> "posts"
      [] pc = "social" -> "witness"
      [] pc = "registry" -> "registry"
      [] pc = "member" -> "member"
      [] pc = "indexer" -> "indexer"

AwaitedTarget ==
    CASE pc = "findWitnesses" -> "app.bsky.feed.post"
      [] pc = "social" -> witnesses[idx]
      [] pc = "registry" -> options.registries[idx]
      [] pc = "member" -> members[midx]
      [] pc = "indexer" -> options.indexers[idx]

\* the awaited listRecords / fetch never settles: no call of the code passes a timeout or an
\* abort signal, so the await (lines 32, 69, 120, 140, 216) is never resumed
FetchHangs ==
    /\ pc \in {"findWitnesses", "social", "registry", "member", "indexer"}
    /\ Log(AwaitedKind, AwaitedTarget, "hung", <<>>)
    /\ pc' = "hung"
    /\ UNCHANGED <<options, witnesses, idx, chanAtts, members, midx, attestations, sources,
                   warnings, seenUris, opRepo, opFetch, opPc, opResult, opWarnings, opRecords, callVars, pds>>

LiveNext ==
    \/ Next
    \/ FetchHangs

\* a call that settles is resumed by the event loop: weak fairness of the settling steps
LiveSpec == Init /\ [][LiveNext]_vars /\ WF_vars(Next)

----------------------------------------------------------------------------
(* getOperatorRecords and getCurrentOperator *)

\* record references (at:// URIs) of the operator records, by position in the collection
OpUris == <<"at://did:plc:example-agent/at.witness.operator/1",
            "at://did:plc:example-agent/at.witness.operator/2",
            "at://did:plc:example-agent/at.witness.operator/3",
            "at://did:plc:example-agent/at.witness.operator/4">>
GoneUri == "at://did:plc:example-agent/at.witness.operator/gone"

T1 == "2026-01-01T00:00:00Z"
T2 == "2026-02-01T00:00:00Z"
T2ms == "2026-02-01T00:00:00.000Z"
NotADate == "not-a-date"
CreatedAtStrings == {T1, T2, T2ms, NotADate}

\* isNaN(new Date(s).getTime()) is false
ValidDate(s) == s \in {T1, T2, T2ms}

\* new Date(s).getTime(), in months since 2025-12-01 (defined on valid dates)
GetTime(s) == CASE s = T1 -> 1 [] s = T2 -> 2 [] s = T2ms -> 2

\* the strings a record may carry in supersedes
SupersedesStrings == { OpUris[k] : k \in 1..MaxRecords } \cup {GoneUri, T1, T2}

OperatorValues ==
    { [type |-> "at.witness.operator", operatorDid |-> "did:plc:operator", createdAt |-> c] :
         c \in CreatedAtStrings }
    \cup
    { [type |-> "at.witness.operator", operatorDid |-> "did:plc:operator", createdAt |-> c,
       supersedes |-> u] : c \in CreatedAtStrings, u \in SupersedesStrings }

\* the errors listRecords may reject with
ListErrors == { [status |-> 404, notFoundMessage |-> FALSE],
                [status |-> 400, notFoundMessage |-> TRUE],
                [status |-> 500, notFoundMessage |-> FALSE],
                [status |-> 0, notFoundMessage |-> FALSE] }

\* the condition of the catch in getOperatorRecords under which [] is returned
MissingRecords(error) == error.status = 404 \/ error.notFoundMessage

\* the comparator with its operands exchanged: the oldest record sorts first
CompareAscending(a, b) ==
    IF ValidDate(a.createdAt) /\ ValidDate(b.createdAt)
    THEN GetTime(a.createdAt) - GetTime(b.createdAt)
    ELSE 0

\* the sign of the sort comparator (a, b) => getTime(b) - getTime(a); NaN counts as +0
Compare(a, b) ==
    IF ValidDate(a.createdAt) /\ ValidDate(b.createdAt)
    THEN GetTime(b.createdAt) - GetTime(a.createdAt)
    ELSE 0

RECURSIVE InsertSorted(_, _)
\* x goes after every element that does not sort after it (Array.prototype.sort is stable)
InsertSorted(sorted, x) ==
    IF sorted = <<>> THEN <<x>>
    ELSE IF Compare(Head(sorted), x) > 0
         THEN <<x>> \o sorted
         ELSE <<Head(sorted)>> \o InsertSorted(Tail(sorted), x)

RECURSIVE StableSort(_)
StableSort(s) ==
    IF s = <<>> THEN <<>>
    ELSE InsertSorted(StableSort(SubSeq(s, 1, Len(s) - 1)), s[Len(s)])

Orderings(s) ==
    { [k \in 1..Len(s) |-> s[f[k]]] :
        f \in { g \in [1..Len(s) -> 1..Len(s)] : \A i, j \in 1..Len(s) : g[i] = g[j] => i = j } }

\* the comparator is a consistent comparator on s
Consistent(s) ==
    \/ \A k \in 1..Len(s) : ValidDate(s[k].createdAt)
    \/ \A i, j \in 1..Len(s) : Compare(s[i], s[j]) = 0

\* what .sort(...) may leave in the array: the order is implementation-defined
\* when the comparator is not consistent
SortOutcomes(s) == IF Consistent(s) THEN { StableSort(s) } ELSE Orderings(s)

\* the keys of the supersededBy map (lines 93-98)
SupersededKeys(records) ==
    { records[k].supersedes : k \in { n \in 1..Len(records) : "supersedes" \in DOMAIN records[n] } }

RECURSIVE FilterNotIn(_, _)
\* .filter(r => !keys.includes(r.createdAt))  (line 102)
FilterNotIn(records, keys) ==
    IF records = <<>> THEN <<>>
    ELSE (IF Head(records).createdAt \notin keys THEN <<Head(records)>> ELSE <<>>)
         \o FilterNotIn(Tail(records), keys)

Unsuperseded(records) == FilterNotIn(records, SupersededKeys(records))

\* a variant without the fallback to records[0]
FirstOrNone(sorted, records) == IF Len(sorted) > 0 THEN <<sorted[1]>> ELSE <<>>

\* line 105: unsuperseded[0] || records[0], given the sorted array
FirstOr(sorted, records) == IF Len(sorted) > 0 THEN <<sorted[1]>> ELSE <<records[1]>>

\* a variant in which the sort of line 103 is applied to `records` itself
RecordsSortedInPlace(records) == StableSort(records)

\* `records` after lines 101-103: .filter returns a new array and .sort orders
\* that array in place, so `records` keeps its elements and their order
RecordsAfter(records) == records

\* the values getCurrentOperator may resolve with: <<>> is null, <<r>> a record
GetCurrentOperator(records) ==
    IF Len(records) = 0 THEN { <<>> }
    ELSE { FirstOr(sorted, records) : sorted \in SortOutcomes(Unsuperseded(records)) }

\* response.data.records.map(r => r.value)
ValuesOf(repo) == [k \in 1..Len(repo) |-> repo[k].value]

\* listRecords resolved: getOperatorRecords returns the values, getCurrentOperator runs to its return
OperatorFetchOk ==
    /\ opPc = "fetching"
    /\ opFetch' = "ok"
    /\ opResult' \in GetCurrentOperator(ValuesOf(opRepo))
    /\ opWarnings' = <<>>
    /\ opRecords' = RecordsAfter(ValuesOf(opRepo))
    /\ opPc' = "resolved"
    /\ UNCHANGED <<opRepo, options, pc, witnesses, idx, chanAtts, members, midx,
                   attestations, sources, warnings, seenUris, fetchLog, callVars, pds>>

\* listRecords rejected with an error the catch of getOperatorRecords turns into []
OperatorFetchMissing ==
    /\ opPc = "fetching"
    /\ \E error \in ListErrors :
          /\ MissingRecords(error)
          /\ opFetch' = "missing"
    /\ opResult' \in GetCurrentOperator(<<>>)
    /\ opWarnings' = <<>>
    /\ opRecords' = <<>>
    /\ opPc' = "resolved"
    /\ UNCHANGED <<opRepo, options, pc, witnesses, idx, chanAtts, members, midx,
                   attestations, sources, warnings, seenUris, fetchLog, callVars, pds>>

\* listRecords rejected with any other error: line 71 rethrows it through getCurrentOperator
OperatorFetchThrows ==
    /\ opPc = "fetching"
    /\ \E error \in ListErrors :
          /\ ~MissingRecords(error)
          /\ opFetch' = "error"
    /\ opPc' = "thrown"
    /\ UNCHANGED <<opResult, opWarnings, opRecords, opRepo, options, pc, witnesses, idx, chanAtts, members, midx,
                   attestations, sources, warnings, seenUris, fetchLog, callVars, pds>>

\* the operator collections a repository may hold
OperatorRepos ==
    { [k \in 1..Len(vs) |-> [uri |-> OpUris[k], value |-> vs[k]]] :
         vs \in SeqsUpTo(OperatorValues, MaxRecords) }

DiscoveryIdle ==
    /\ options = [knownWitnesses |-> <<>>, discoverWitnessesSocially |-> FALSE,
                  registries |-> <<>>, indexers |-> <<>>, deduplicate |-> "undefined"]
    /\ pc = "idle"
    /\ witnesses = <<>>
    /\ idx = 1
    /\ chanAtts = <<>>
    /\ members = <<>>
    /\ midx = 1
    /\ attestations = <<>>
    /\ sources = [social |-> 0, registry |-> 0, indexer |-> 0]
    /\ warnings = <<>>
    /\ seenUris = {}
    /\ fetchLog = <<>>

\* getCurrentOperator is called on an agent whose repository holds opRepo
OperatorInit ==
    /\ RepositoryIdle
    /\ DiscoveryIdle
    /\ CallIdle
    /\ opRepo \in OperatorRepos
    /\ opFetch = "none"
    /\ opPc = "fetching"
    /\ opResult = <<>>
    /\ opWarnings = <<>>
    /\ opRecords = <<>>

OperatorNext ==
    \/ OperatorFetchOk
    \/ OperatorFetchMissing
    \/ OperatorFetchThrows

OperatorSpec == OperatorInit /\ [][OperatorNext]_vars

----------------------------------------------------------------------------
(* validateOperatorRecord and validateAttestation *)

\* the records with the fields of R and, optionally, field f holding a value of V
WithOptional(R, f, V) == R \cup { r @@ (f :> v) : r \in R, v \in V }

\* what a caller may hand to validateOperatorRecord (record: any)
OperatorInputs ==
    WithOptional(
      WithOptional(
        WithOptional(
          WithOptional({ <<>> }, "type", {"at.witness.operator", "at.witness.attestation"}),
          "operatorDid", {"", "did:plc:operator", "alice.example"}),
        "createdAt", {"", T1, NotADate}),
      "constraints", { <<>>, <<"no financial advice">> })

\* what a caller may hand to validateAttestation (record: any)
AttestationInputs ==
    WithOptional(
      WithOptional(
        WithOptional(
          WithOptional(
            WithOptional(
              WithOptional(
                WithOptional({ <<>> }, "type", {"at.witness.attestation", "at.witness.operator"}),
                "subjectDid", { <<>>, Target, <<"example-bot">> }),
              "claim", { <<>>, <<"helpful">> }),
            "createdAt", { <<>>, <<"2026-01-10T10:00:00Z">>, <<"not-a-date">> }),
          "claimCategory", {"", "factual", "speculative"}),
        "sentiment", {"", "positive", "angry"}),
      "evidence", { <<>>, << [type |-> "post"] >> })

\* !record[f]: the field is undefined or holds the falsy value of its type
\* ("" for a string, written <<>> when the string is a token sequence)
Falsy(record, f, empty) == f \notin DOMAIN record \/ record[f] = empty

\* !record[f] || record[f].length === 0, for an array field
NoneListed(record, f) == f \notin DOMAIN record \/ Len(record[f]) = 0

\* if (cond) list.push(message), as the elements pushed
PushIf(cond, message) == IF cond THEN << message >> ELSE <<>>

\* record.operatorDid.startsWith('did:')
OperatorDidStartsWithDid(s) == s \in WitnessDids \cup {"did:plc:operator"}

\* record.subjectDid.startsWith('did:'), on a token sequence
SubjectDidStartsWithDid(s) == Len(s) >= 2 /\ s[1] = "did" /\ s[2] = ":"

\* !isNaN(Date.parse(s)), on a createdAt written as a token sequence
TimestampParses(s) == s \in { <<"2026-01-10T10:00:00Z">>, <<"2026-01-15T14:30:00Z">> }

validCategories == {"factual", "subjective", "predictive"}
validSentiments == {"positive", "negative", "neutral"}

\* the object both validators return
ValidationResult(errorList, warningList) ==
    [valid |-> Len(errorList) = 0, errors |-> errorList, warnings |-> warningList]

\* lines 156-175 with the check of createdAt (lines 163-165) left out
OperatorErrorsNoCreatedAt(record) ==
    PushIf(Falsy(record, "type", "") \/ record.type # "at.witness.operator",
           <<"Missing or invalid $type", "at.witness.operator">>)
    \o PushIf(Falsy(record, "operatorDid", ""), <<"Missing required field", "operatorDid">>)
    \o PushIf(~Falsy(record, "operatorDid", "") /\ ~OperatorDidStartsWithDid(record.operatorDid),
              <<"operatorDid", "must be a valid DID">>)
    \o PushIf(~Falsy(record, "createdAt", "") /\ ~ValidDate(record.createdAt),
              <<"createdAt", "must be a valid ISO 8601 timestamp">>)

\* the errors of validateOperatorRecord, lines 156-175
OperatorErrors(record) ==
    PushIf(Falsy(record, "type", "") \/ record.type # "at.witness.operator",
           <<"Missing or invalid $type", "at.witness.operator">>)
    \o PushIf(Falsy(record, "operatorDid", ""), <<"Missing required field", "operatorDid">>)
    \o PushIf(Falsy(record, "createdAt", ""), <<"Missing required field", "createdAt">>)
    \o PushIf(~Falsy(record, "operatorDid", "") /\ ~OperatorDidStartsWithDid(record.operatorDid),
              <<"operatorDid", "must be a valid DID">>)
    \o PushIf(~Falsy(record, "createdAt", "") /\ ~ValidDate(record.createdAt),
              <<"createdAt", "must be a valid ISO 8601 timestamp">>)

\* the warnings of validateOperatorRecord, lines 177-180
OperatorWarnings(record) ==
    PushIf(NoneListed(record, "constraints"), <<"No constraints specified">>)

ValidateOperatorRecord(record) ==
    ValidationResult(OperatorErrors(record), OperatorWarnings(record))

\* the errors of validateAttestation, lines 196-225
AttestationErrors(record) ==
    PushIf(Falsy(record, "type", "") \/ record.type # "at.witness.attestation",
           <<"Missing or invalid $type", "at.witness.attestation">>)
    \o PushIf(Falsy(record, "subjectDid", <<>>), <<"Missing required field", "subjectDid">>)
    \o PushIf(Falsy(record, "claim", <<>>), <<"Missing required field", "claim">>)
    \o PushIf(Falsy(record, "createdAt", <<>>), <<"Missing required field", "createdAt">>)
    \o PushIf(~Falsy(record, "subjectDid", <<>>) /\ ~SubjectDidStartsWithDid(record.subjectDid),
              <<"subjectDid", "must be a valid DID">>)
    \o PushIf(~Falsy(record, "claimCategory", "") /\ record.claimCategory \notin validCategories,
              <<"claimCategory", "must be one of", "factual, subjective, predictive">>)
    \o PushIf(~Falsy(record, "sentiment", "") /\ record.sentiment \notin validSentiments,
              <<"sentiment", "must be one of", "positive, negative, neutral">>)

\* lines 227-233 with the check of evidence (lines 231-233) left out
AttestationWarningsNoEvidence(record) ==
    PushIf(Falsy(record, "claimCategory", ""), <<"No claimCategory specified">>)

\* the warnings of validateAttestation, lines 227-233
AttestationWarnings(record) ==
    PushIf(Falsy(record, "claimCategory", ""), <<"No claimCategory specified">>)
    \o PushIf(NoneListed(record, "evidence"), <<"No evidence provided">>)

ValidateAttestation(record) ==
    ValidationResult(AttestationErrors(record), AttestationWarnings(record))

\* validateOperatorRecord(record) returns
ValidateOperatorRecordReturn ==
    /\ callFn = "validateOperatorRecord"
    /\ callResult = <<>>
    /\ callResult' = << ValidateOperatorRecord(callArgs[1]) >>
    /\ UNCHANGED <<callFn, callArgs, discVars, opVars, pds>>

\* validateAttestation(record) returns
ValidateAttestationReturn ==
    /\ callFn = "validateAttestation"
    /\ callResult = <<>>
    /\ callResult' = << ValidateAttestation(callArgs[1]) >>
    /\ UNCHANGED <<callFn, callArgs, discVars, opVars, pds>>

\* one of the validators is called on a record
ValidateInit ==
    /\ RepositoryIdle
    /\ DiscoveryIdle
    /\ OperatorIdle
    /\ \/ callFn = "validateOperatorRecord" /\ callArgs \in { <<r>> : r \in OperatorInputs }
       \/ callFn = "validateAttestation" /\ callArgs \in { <<r>> : r \in AttestationInputs }
    /\ callResult = <<>>

ValidateNext ==
    \/ ValidateOperatorRecordReturn
    \/ ValidateAttestationReturn

ValidateSpec == ValidateInit /\ [][ValidateNext]_vars

----------------------------------------------------------------------------
(* summarizeAttestations *)

W3 == "did:plc:trusted-witness-3"

\* attestations as a caller collected them, each with the witness whose repository held it
S1 == A1 @@ [_witnessDid |-> W1]
S2 == A2 @@ [_witnessDid |-> W2]
S3 == M1 @@ [_witnessDid |-> W3]
S4 == [type |-> "at.witness.attestation", subjectDid |-> Target,
       claim |-> <<"will improve">>, createdAt |-> <<"2026-01-15T14:30:00Z">>,
       sentiment |-> "neutral", claimCategory |-> "speculative", _witnessDid |-> W1]
S5 == O1 @@ [_witnessDid |-> W2]
S6 == [type |-> "at.witness.attestation", subjectDid |-> Target,
       claim |-> <<"answers quickly">>, claimCategory |-> "factual", _witnessDid |-> W3]
SummaryInputs == {S1, S2, S3, S4, S5, S6}

\* list.filter(a => a[f] === value).length
CountField(list, f, value) ==
    Cardinality({ k \in 1..Len(list) : f \in DOMAIN list[k] /\ list[k][f] = value })

\* counts every attestation that carries a sentiment, whichever it is
CountSentimentAny(list, sentiment) ==
    Cardinality({ k \in 1..Len(list) : "sentiment" \in DOMAIN list[k] })

\* relevant.filter(a => a.sentiment === sentiment).length
CountSentiment(list, sentiment) == CountField(list, "sentiment", sentiment)

\* relevant.filter(a => !a.claimCategory).length
CountUnknown(list) ==
    Cardinality({ k \in 1..Len(list) : Falsy(list[k], "claimCategory", "") })

RECURSIVE TruthyCreatedAt(_)
\* relevant.map(a => a.createdAt).filter(t => t)
TruthyCreatedAt(list) ==
    IF list = <<>> THEN <<>>
    ELSE (IF Falsy(Head(list), "createdAt", <<>>) THEN <<>> ELSE << Head(list).createdAt >>)
         \o TruthyCreatedAt(Tail(list))

\* the createdAt strings of the model, in the order of their UTF-16 code units
CodeUnitOrder == << <<"2026-01-10T10:00:00Z">>, <<"2026-01-15T14:30:00Z">>,
                    <<"2026-01-20T09:00:00Z">>, <<"not-a-date">> >>

CodeUnitRank(s) == CHOOSE k \in 1..Len(CodeUnitOrder) : CodeUnitOrder[k] = s

RECURSIVE InsertByCodeUnits(_, _)
InsertByCodeUnits(sorted, x) ==
    IF sorted = <<>> THEN <<x>>
    ELSE IF CodeUnitRank(Head(sorted)) > CodeUnitRank(x)
         THEN <<x>> \o sorted
         ELSE <<Head(sorted)>> \o InsertByCodeUnits(Tail(sorted), x)

\* the timestamps left in the order of the list
SortOmitted(ts) == ts

RECURSIVE DefaultSort(_)
\* Array.prototype.sort() without a comparator, on strings
DefaultSort(ts) ==
    IF ts = <<>> THEN <<>>
    ELSE InsertByCodeUnits(DefaultSort(SubSeq(ts, 1, Len(ts) - 1)), ts[Len(ts)])

\* timestamps[i] || null: <<>> is null, <<t>> a string
ElementOrNull(ts, i) == IF i \in 1..Len(ts) THEN << ts[i] >> ELSE <<>>

\* new Set(attestations.map(a => a.subjectDid)).size
WitnessesSize(list) == Cardinality({ Field(list[k], "subjectDid") : k \in 1..Len(list) })

SummarizeAttestations(list, subjectDid) ==
    LET relevant == SelectSeqBy(list, subjectDid)
        timestamps == DefaultSort(TruthyCreatedAt(relevant))
    IN [subjectDid |-> subjectDid,
        totalAttestations |-> Len(relevant),
        positiveCount |-> CountSentiment(relevant, "positive"),
        negativeCount |-> CountSentiment(relevant, "negative"),
        neutralCount |-> CountSentiment(relevant, "neutral"),
        byCategory |-> [factual |-> CountField(relevant, "claimCategory", "factual"),
                        subjective |-> CountField(relevant, "claimCategory", "subjective"),
                        predictive |-> CountField(relevant, "claimCategory", "predictive"),
                        unknown |-> CountUnknown(relevant)],
        uniqueWitnesses |-> WitnessesSize(list),
        oldestAttestation |-> ElementOrNull(timestamps, 1),
        newestAttestation |-> ElementOrNull(timestamps, Len(timestamps))]

\* summarizeAttestations(attestations, subjectDid) returns; the caller may call it again
SummarizeReturn ==
    /\ callFn = "summarizeAttestations"
    /\ Len(callResult) < MaxCalls
    /\ callResult' = Append(callResult, SummarizeAttestations(callArgs[1], callArgs[2]))
    /\ UNCHANGED <<callFn, callArgs, discVars, opVars, pds>>

\* summarizeAttestations is called on a list of attestations and a subject
SummaryInit ==
    /\ RepositoryIdle
    /\ DiscoveryIdle
    /\ OperatorIdle
    /\ callFn = "summarizeAttestations"
    /\ callArgs \in { <<list, s>> : list \in SeqsUpTo(SummaryInputs, MaxAttestations),
                                    s \in {Target, OtherAgent} }
    /\ callResult = <<>>

SummaryNext == SummarizeReturn

SummarySpec == SummaryInit /\ [][SummaryNext]_vars

----------------------------------------------------------------------------
(* publishOperatorRecord and publishAttestation *)

\* record keys (TIDs) the repository generates when rkey is not provided, in creation order
AutoKeys == <<"3lb2aaaaaaa22", "3lb2aaaaaab22", "3lb2aaaaaac22", "3lb2aaaaaad22", "3lb2aaaaaae22">>

\* the rkey argument of the publishing functions: not provided, or a key chosen by the caller
RkeyArguments == {"undefined", "self"}

\* response.data.uri: at://<agent.session.did>/<collection>/<rkey>
UriOf(entry) == <<"at://agent.session.did", entry.collection, entry.rkey>>

\* the operator records and attestations the agent publishes
PublishedOperatorRecords ==
    { [type |-> "at.witness.operator", operatorDid |-> "did:plc:operator", createdAt |-> c] :
         c \in {T1, T2} }
PublishedAttestations == {A1, A2}

\* the correction of the example: a new attestation whose contestsRecord is the earlier uri
Correction(uri) ==
    [type |-> "at.witness.attestation", subjectDid |-> Target,
     claim |-> <<"My previous attestation was incomplete">>,
     createdAt |-> <<"2026-01-20T09:00:00Z">>,
     claimCategory |-> "factual", sentiment |-> "positive", contestsRecord |-> uri]

KeyFor(repo, rkey) == IF rkey = "undefined" THEN AutoKeys[Len(repo) + 1] ELSE rkey

Holds(repo, collection, key) ==
    \E k \in 1..Len(repo) : repo[k].collection = collection /\ repo[k].rkey = key

\* a write under a key in use replaces the record stored there
CreateRecordOverwrites(repo, collection, rkey, record) ==
    LET key == KeyFor(repo, rkey)
        entry == [collection |-> collection, rkey |-> key, record |-> record]
    IN IF Holds(repo, collection, key)
       THEN [repo |-> [k \in 1..Len(repo) |->
                         IF repo[k].collection = collection /\ repo[k].rkey = key
                         THEN entry ELSE repo[k]],
             response |-> [ok |-> TRUE, uri |-> UriOf(entry)]]
       ELSE [repo |-> Append(repo, entry), response |-> [ok |-> TRUE, uri |-> UriOf(entry)]]

\* agent.com.atproto.repo.createRecord: creates a new record; a key in use is rejected
CreateRecord(repo, collection, rkey, record) ==
    LET key == KeyFor(repo, rkey)
        entry == [collection |-> collection, rkey |-> key, record |-> record]
    IN IF Holds(repo, collection, key)
       THEN [repo |-> repo, response |-> [ok |-> FALSE]]
       ELSE [repo |-> Append(repo, entry), response |-> [ok |-> TRUE, uri |-> UriOf(entry)]]

\* the call settles: the function returns {uri, cid}, or the rejection leaves it as an error
Published(fn, collection, record, rkey) ==
    LET out == CreateRecord(pds, collection, rkey, record)
    IN /\ pds' = out.repo
       /\ callFn' = fn
       /\ callArgs' = <<record, rkey>>
       /\ callResult' = << out.response >>
       /\ UNCHANGED <<discVars, opVars>>

PublishOperatorRecord ==
    /\ Len(pds) < MaxPublished
    /\ \E record \in PublishedOperatorRecords, rkey \in RkeyArguments :
          Published("publishOperatorRecord", "at.witness.operator", record, rkey)

PublishAttestation ==
    /\ Len(pds) < MaxPublished
    /\ \E record \in PublishedAttestations, rkey \in RkeyArguments :
          Published("publishAttestation", "at.witness.attestation", record, rkey)

\* example 3: publishAttestation(agent, correction) with contestsRecord: attestationUri
PublishCorrection ==
    /\ Len(pds) < MaxPublished
    /\ \E k \in 1..Len(pds), rkey \in RkeyArguments :
          /\ pds[k].collection = "at.witness.attestation"
          /\ Published("publishAttestation", "at.witness.attestation",
                       Correction(UriOf(pds[k])), rkey)

PublishInit ==
    /\ DiscoveryIdle
    /\ OperatorIdle
    /\ CallIdle
    /\ RepositoryIdle

PublishNext ==
    \/ PublishOperatorRecord
    \/ PublishAttestation
    \/ PublishCorrection

PublishSpec == PublishInit /\ [][PublishNext]_vars

----------------------------------------------------------------------------
(* Vocabulary of the properties of discoverAttestations *)

Done == pc = "done"

SourcesTotal == sources.social + sources.registry + sources.indexer

LogIdx == 1..Len(fetchLog)

Failed(i) == fetchLog[i].outcome # "ok"

\* the channel a remote call belongs to
ChannelOf(kind) ==
    CASE kind = "witness" -> "social"
      [] kind = "posts" -> "social"
      [] kind = "member" -> "registry"
      [] kind = "registry" -> "registry"
      [] kind = "indexer" -> "indexer"

\* the attestations about the target that the remote calls returned: <<call, position>>
Returned == UNION { { <<i, k>> : k \in 1..Len(fetchLog[i].relevant) } : i \in LogIdx }

RecordAt(ik) == fetchLog[ik[1]].relevant[ik[2]]

\* same subjectDid, claim and createdAt
SameAttestation(a, b) ==
    /\ a.subjectDid = b.subjectDid
    /\ a.claim = b.claim
    /\ a.createdAt = b.createdAt

InResult(r) == \E k \in 1..Len(attestations) : SameAttestation(attestations[k], r)

\* warnings whose text names a target of the given kind
WarningsOf(prefix) == { k \in 1..Len(warnings) : warnings[k][1] = prefix }

FailedCalls(kinds) == { i \in LogIdx : fetchLog[i].kind \in kinds /\ Failed(i) }

----------------------------------------------------------------------------
(* C1: with deduplicate=true, one attestation discovered through two       *)
(* distinct channels (any pair of social, registry, indexer) and nothing   *)
(* else gives one entry in the result and per-channel counts summing to 1. *)
C1_TwoChannelsOneRecord ==
    /\ Done
    /\ Truthy(options.deduplicate)
    /\ Cardinality(Returned) = 2
    /\ \E x, y \in Returned :
          /\ ChannelOf(fetchLog[x[1]].kind) # ChannelOf(fetchLog[y[1]].kind)
          /\ SameAttestation(RecordAt(x), RecordAt(y))

C1_DedupAcrossChannels ==
    C1_TwoChannelsOneRecord => (Len(attestations) = 1 /\ SourcesTotal = 1)

(* C2: with deduplicate false or unset every record returned by every      *)
(* channel is retained in attestations and counted in sources, so          *)
(* attestations.length = sources.social + sources.registry +               *)
(* sources.indexer = number of records returned.                           *)
C2_RawRetainsAndCounts ==
    (Done /\ ~Truthy(options.deduplicate)) =>
        /\ Len(attestations) = SourcesTotal
        /\ Len(attestations) = Cardinality(Returned)
        /\ \A ik \in Returned : InResult(RecordAt(ik))

(* C3: when some fetches fail, the result still contains every attestation *)
(* about the target returned by each fetch that succeeded.                 *)
C3_FailureIsolation ==
    (Done /\ FailedCalls({"witness", "member", "registry", "indexer"}) # {}) =>
        \A ik \in Returned : InResult(RecordAt(ik))

(* C4: every remote fetch that fails leaves exactly one warning            *)
(* attributable to it in DiscoveryResult.warnings.                         *)
C4_OneWarningPerFailure ==
    (Done /\ FailedCalls({"witness"}) # {}) =>
        Len(warnings) = Cardinality({ i \in LogIdx : Failed(i) })

(* C5: discoverAttestations is total: whatever calls fail, no error leaves *)
(* the function, it is never stuck before its return, and what it returns  *)
(* is a DiscoveryResult {attestations, sources, warnings}.                 *)
C5_Total ==
    /\ pc # "thrown"
    /\ (~Done => ENABLED Next)
    /\ Done =>
          /\ \A c \in {"social", "registry", "indexer"} : sources[c] \in Nat
          /\ DOMAIN sources = {"social", "registry", "indexer"}
          /\ \A k \in 1..Len(warnings) : warnings[k][1] \in {"Indexer", "Registry", "Could not discover witnesses from social graph"}

C5_Witness ==
    /\ Done
    /\ Cardinality({ fetchLog[i].kind : i \in FailedCalls({"posts", "witness", "member", "registry", "indexer"}) }) >= 3

(* C6: a failed fetch of a registry's member list records exactly one      *)
(* warning for that registry, contributes nothing from it, and the other   *)
(* registries are still processed.                                         *)
C6_RegistryFailureWarns ==
    (Done /\ FailedCalls({"registry"}) # {}) =>
        /\ \A i \in FailedCalls({"registry"}) :
              Cardinality({ k \in WarningsOf("Registry") : warnings[k][2] = fetchLog[i].target }) = 1
        /\ \A n \in 1..Len(options.registries) :
              \E i \in LogIdx : fetchLog[i].kind = "registry" /\ fetchLog[i].target = options.registries[n]

(* C7: a failing indexer (non-success status or unreachable) adds exactly  *)
(* one warning naming that indexer, leaves attestations and the three      *)
(* counters unchanged, and the loop goes on to the next indexer.           *)
C7_IndexerFails ==
    /\ pc = "indexer"
    /\ Len(fetchLog') = Len(fetchLog) + 1
    /\ fetchLog'[Len(fetchLog')].outcome # "ok"

C7_IndexerSoftFailure ==
    [][ C7_IndexerFails =>
          /\ warnings' = Append(warnings, <<"Indexer", options.indexers[idx], "unavailable">>)
          /\ attestations' = attestations
          /\ sources' = sources
          /\ IF idx < Len(options.indexers)
             THEN pc' = "indexer" /\ idx' = idx + 1
             ELSE pc' = "done" ]_vars

C7_Witness ==
    /\ Done
    /\ \E i, j \in LogIdx :
          /\ i < j
          /\ fetchLog[i].kind = "indexer" /\ fetchLog[i].outcome = "status"
          /\ fetchLog[j].kind = "indexer" /\ fetchLog[j].outcome = "ok" /\ Len(fetchLog[j].relevant) > 0
    /\ Len(warnings) = 1

----------------------------------------------------------------------------
(* Vocabulary of the properties of getCurrentOperator *)

Resolved == opPc = "resolved" /\ opFetch = "ok"

HasSupersedes(k) == "supersedes" \in DOMAIN opRepo[k].value

\* the candidate tips: records whose own reference no record of the set supersedes
Tips == { k \in 1..Len(opRepo) :
            \A j \in 1..Len(opRepo) : HasSupersedes(j) => opRepo[j].value.supersedes # opRepo[k].uri }

TimeAt(k) == GetTime(opRepo[k].value.createdAt)

AllDatesValid == \A k \in 1..Len(opRepo) : ValidDate(opRepo[k].value.createdAt)

\* B = opRepo[b] is later than A = opRepo[a] and supersedes it; A supersedes nothing
C8_Chain(a, b) ==
    /\ AllDatesValid
    /\ TimeAt(b) > TimeAt(a)
    /\ ~HasSupersedes(a)
    /\ HasSupersedes(b)
    /\ opRepo[b].value.supersedes = opRepo[a].uri

\* B = opRepo[b] is later than A = opRepo[a] and there is no supersedes link
C8_NoLink(a, b) ==
    /\ AllDatesValid
    /\ TimeAt(b) > TimeAt(a)
    /\ ~HasSupersedes(a)
    /\ ~HasSupersedes(b)

(* C8: of two operator records A (createdAt T1) and B (createdAt T2 > T1), *)
(* getCurrentOperator returns B when B supersedes A, and also when there   *)
(* is no supersedes link at all, in whichever order they are listed.       *)
C8_SupersessionDeterminism ==
    (Resolved /\ Len(opRepo) = 2) =>
        \A a, b \in 1..2 :
            (a # b /\ (C8_Chain(a, b) \/ C8_NoLink(a, b))) => opResult = <<opRepo[b].value>>

C8_Witness ==
    /\ Resolved
    /\ Len(opRepo) = 2
    /\ C8_Chain(1, 2)
    /\ opResult = <<opRepo[2].value>>

(* C9: when exactly one record's own reference is not the target of any    *)
(* supersedes link of the set, getCurrentOperator returns that record,     *)
(* whatever the createdAt values are.                                      *)
C9_UniqueTipReturned ==
    (Resolved /\ AllDatesValid /\ Cardinality(Tips) = 1) =>
        \A k \in Tips : opResult = <<opRepo[k].value>>

(* C10: when no record is a candidate tip (a supersedes cycle among the    *)
(* records),                                                               *)
(* getCurrentOperator returns the record with the latest createdAt of the  *)
(* set and surfaces a warning that the chain could not be resolved.        *)
C10_EmptyTipsFallback ==
    (Resolved /\ Len(opRepo) > 1 /\ Tips = {}) =>
        /\ Len(opResult) = 1
        /\ AllDatesValid =>
              \A k \in 1..Len(opRepo) : TimeAt(k) <= GetTime(opResult[1].createdAt)
        /\ Len(opWarnings) > 0

(* C11: the result of getCurrentOperator depends only on the set of        *)
(* operator records: every ordering of the records of the repository       *)
(* with parseable createdAt values (also when several candidate tips       *)
(* share the latest createdAt) resolves to the record that the listed      *)
(* ordering resolved to.                                                   *)
C11_OrderIndependentResolution ==
    (Resolved /\ AllDatesValid) =>
        \A p \in Orderings(ValuesOf(opRepo)) : GetCurrentOperator(p) = { opResult }

----------------------------------------------------------------------------
(* Vocabulary of the properties of the validators *)

Validated(fn) == callFn = fn /\ Len(callResult) = 1

\* the record handed to the validator and the ValidationResult it returned
Checked == callArgs[1]
Verdict == callResult[1]

Lacks(f) == f \notin DOMAIN Checked

\* errors has an entry that names f as a missing field
NamesMissing(f) ==
    \E k \in 1..Len(Verdict.errors) : Verdict.errors[k] = <<"Missing required field", f>>

(* C12: an attestation lacking subjectDid, claim or createdAt and an        *)
(* operator record lacking operatorDid or createdAt are returned with      *)
(* valid=false and an entry of errors naming each field that is missing.   *)
C12_MissingRequiredRejected ==
    /\ Validated("validateAttestation") =>
          \A f \in {"subjectDid", "claim", "createdAt"} :
              Lacks(f) => (~Verdict.valid /\ NamesMissing(f))
    /\ Validated("validateOperatorRecord") =>
          \A f \in {"operatorDid", "createdAt"} :
              Lacks(f) => (~Verdict.valid /\ NamesMissing(f))

C12_Witness ==
    /\ Validated("validateOperatorRecord")
    /\ "type" \in DOMAIN Checked /\ Checked.type = "at.witness.operator"
    /\ Lacks("operatorDid") /\ Lacks("createdAt")
    /\ ~Verdict.valid
    /\ Len(Verdict.errors) = 2
    /\ NamesMissing("operatorDid") /\ NamesMissing("createdAt")

\* field f is present and holds a value outside the declared set
OutOfSet(f, declared) == ~Lacks(f) /\ Checked[f] \notin declared

(* C13: an attestation whose sentiment is present with a value outside     *)
(* {positive, negative, neutral}, or whose claimCategory is present with   *)
(* a value outside {factual, subjective, predictive}, the empty string     *)
(* included, is returned with valid=false.                                 *)
C13_OutOfSetEnumRejected ==
    (/\ Validated("validateAttestation")
     /\ \/ OutOfSet("sentiment", {"positive", "negative", "neutral"})
        \/ OutOfSet("claimCategory", {"factual", "subjective", "predictive"}))
    => ~Verdict.valid

\* createdAt is present and does not parse as a timestamp
UnparseableCreatedAt ==
    /\ ~Lacks("createdAt")
    /\ IF callFn = "validateOperatorRecord"
       THEN ~ValidDate(Checked.createdAt)
       ELSE ~TimestampParses(Checked.createdAt)

(* C14: an operator record or an attestation whose createdAt is present    *)
(* but does not parse as a timestamp is returned with valid=false and at   *)
(* least one error.                                                        *)
C14_UnparseableCreatedAtRejected ==
    ((Validated("validateOperatorRecord") \/ Validated("validateAttestation"))
     /\ UnparseableCreatedAt)
    => (~Verdict.valid /\ Len(Verdict.errors) > 0)

\* the attestation passes the required-field, identifier, timestamp and enum checks
WellFormedAttestation ==
    /\ ~Lacks("type") /\ Checked.type = "at.witness.attestation"
    /\ ~Lacks("subjectDid") /\ SubjectDidStartsWithDid(Checked.subjectDid)
    /\ ~Lacks("claim") /\ Checked.claim # <<>>
    /\ ~Lacks("createdAt") /\ TimestampParses(Checked.createdAt)
    /\ Lacks("claimCategory") \/ Checked.claimCategory \in {"factual", "subjective", "predictive"}
    /\ Lacks("sentiment") \/ Checked.sentiment \in {"positive", "negative", "neutral"}

\* the operator record passes the required-field, identifier and timestamp checks
WellFormedOperator ==
    /\ ~Lacks("type") /\ Checked.type = "at.witness.operator"
    /\ ~Lacks("operatorDid") /\ Checked.operatorDid = "did:plc:operator"
    /\ ~Lacks("createdAt") /\ ValidDate(Checked.createdAt)

\* the warning that tells of the absent recommended field f
WarningFor(f) ==
    CASE f = "evidence" -> <<"No evidence provided">>
      [] f = "claimCategory" -> <<"No claimCategory specified">>
      [] f = "constraints" -> <<"No constraints specified">>

\* accepted, and for each absent field of the given ones exactly one warning about it
AcceptedWithWarnings(recommended) ==
    /\ Verdict.valid
    /\ Len(Verdict.warnings) > 0
    /\ \A f \in recommended :
          Lacks(f) => Cardinality({ k \in 1..Len(Verdict.warnings) :
                                       Verdict.warnings[k] = WarningFor(f) }) = 1

C16_ResultsPassValidation ==
    Done => \A k \in 1..Len(attestations) : ValidateAttestation(attestations[k]).valid

----------------------------------------------------------------------------
(* Vocabulary of the properties of summarizeAttestations *)

Summarized == callFn = "summarizeAttestations" /\ Len(callResult) >= 1

\* the arguments of the call and the summary it returned
Given == callArgs[1]
Subject == callArgs[2]
Summary == callResult[1]

\* the positions of the attestations about the subject
About == { k \in 1..Len(Given) : Given[k].subjectDid = Subject }

SentimentTotal == Summary.positiveCount + Summary.negativeCount + Summary.neutralCount

CarriesSentiment(k) ==
    "sentiment" \in DOMAIN Given[k] /\ Given[k].sentiment \in {"positive", "negative", "neutral"}

(* C17: positiveCount + negativeCount + neutralCount is at most            *)
(* totalAttestations, and equal to it exactly when every attestation       *)
(* about the subject carries one of the three sentiments.                  *)
C17_SentimentCountsBounded ==
    Summarized =>
        /\ SentimentTotal <= Summary.totalAttestations
        /\ (SentimentTotal = Summary.totalAttestations) <=> (\A k \in About : CarriesSentiment(k))

C17_Witness ==
    /\ Summarized
    /\ Cardinality(About) = 3
    /\ \E k \in About : ~CarriesSentiment(k)
    /\ SentimentTotal = 2
    /\ Summary.totalAttestations = 3

(* C18: byCategory.factual + byCategory.subjective + byCategory.predictive *)
(* + byCategory.unknown equals totalAttestations, also when a claimCategory*)
(* holds a value outside factual / subjective / predictive.                *)
C18_CategoryCountsSumToTotal ==
    Summarized =>
        Summary.byCategory.factual + Summary.byCategory.subjective
          + Summary.byCategory.predictive + Summary.byCategory.unknown
        = Summary.totalAttestations

\* a call of summarizeAttestations returns in this step
C19_Returns == callFn = "summarizeAttestations" /\ Len(callResult') = Len(callResult) + 1

(* C19: the summary a call returns is the summary of every permutation of  *)
(* the list, it is the summary every earlier call on the same input        *)
(* returned, and the call leaves the input list as it was.                 *)
C19_OrderIndependentIdempotent ==
    [][ C19_Returns =>
          /\ \A p \in Orderings(Given) :
                SummarizeAttestations(p, Subject) = callResult'[Len(callResult')]
          /\ \A k \in 1..Len(callResult) : callResult[k] = callResult'[Len(callResult')]
          /\ callArgs' = callArgs ]_vars

C19_Witness ==
    /\ callFn = "summarizeAttestations"
    /\ Len(callResult) = 2
    /\ Cardinality(About) = 3
    /\ Summary.oldestAttestation # Summary.newestAttestation
    /\ "createdAt" \in DOMAIN Given[1]
    /\ Summary.oldestAttestation # << Given[1].createdAt >>

\* the witnesses that authored the attestations about the subject
Authors == { Given[k]._witnessDid : k \in About }

(* C20: uniqueWitnesses is the number of distinct witnesses that authored  *)
(* the attestations about the subject (three attestations from three       *)
(* witnesses give 3, three from one witness give 1, none gives 0).         *)
C20_UniqueWitnessesCountsAuthors ==
    (Summarized /\ Cardinality(About) = Len(Given)) =>
        Summary.uniqueWitnesses = Cardinality(Authors)

----------------------------------------------------------------------------
(* C21: a remote fetch that never responds does not block discovery: once  *)
(* a call hangs, the remaining targets are still fetched, the hung call is *)
(* turned into a warning and discoverAttestations eventually returns.      *)
C21_HungFetchDoesNotBlock == (pc = "hung") ~> Done

----------------------------------------------------------------------------
(* Vocabulary of the order-independence properties of discoverAttestations *)

RECURSIVE CallsOf(_, _)
\* the remote calls of the given kind, in the order they were made
CallsOf(log, kind) ==
    IF log = <<>> THEN <<>>
    ELSE (IF Head(log).kind = kind THEN << Head(log) >> ELSE <<>>) \o CallsOf(Tail(log), kind)

\* the attestations about the target that the calls returned, in that order
OfferedIn(calls) == Flatten([k \in 1..Len(calls) |-> calls[k].relevant])

Range(s) == { s[k] : k \in 1..Len(s) }

\* DiscoveryResult.attestations of the invocation that gets the same responses with the
\* witness fetches made in the order ws and the registry-member fetches in the order ms
Replayed(ws, ms) ==
    AddAttestations([attestations |-> <<>>,
                     sources |-> [social |-> 0, registry |-> 0, indexer |-> 0],
                     seenUris |-> {}],
                    OfferedIn(ws) \o OfferedIn(ms), "social",
                    Truthy(options.deduplicate)).attestations

DistinctTargets(calls) ==
    \A i, j \in 1..Len(calls) : calls[i].target = calls[j].target => i = j

\* the key strings addAttestations builds for the records
KeysOf(list) == { KeyOf(list[k]) : k \in 1..Len(list) }

----------------------------------------------------------------------------
----------------------------------------------------------------------------
(* C24: whatever error listRecords raises (not found, unreachable host,    *)
(* any other transport error), getOperatorRecords and getCurrentOperator   *)
(* do not throw to the caller: they return an empty or none result.        *)
C24_ReaderNeverThrows ==
    /\ opPc # "thrown"
    /\ (opPc = "resolved" /\ opFetch # "ok") => opResult = <<>>

----------------------------------------------------------------------------
\* the records handed to addAttestations: <<call, position>>
Offered == { ik \in Returned : fetchLog[ik[1]].kind \in {"witness", "member"} }

(* C25: with deduplicate=true every canonical key (subjectDid, claim,      *)
(* createdAt) that was offered to addAttestations is the key of exactly    *)
(* one entry of DiscoveryResult.attestations, so no two entries share a    *)
(* key.                                                                    *)
C25_EachKeyExactlyOnce ==
    (Done /\ Truthy(options.deduplicate)) =>
        \A ik \in Offered :
            Cardinality({ k \in 1..Len(attestations) :
                            SameAttestation(attestations[k], RecordAt(ik)) }) = 1

----------------------------------------------------------------------------
\* x was returned before y: an earlier call, or an earlier position of the same call
Before(x, y) == x[1] < y[1] \/ (x[1] = y[1] /\ x[2] < y[2])

\* among the records of `returned`, the first one of each key
FirstOffers(returned) ==
    { x \in returned :
        \A y \in returned : KeyOf(RecordAt(y)) = KeyOf(RecordAt(x)) => ~Before(y, x) }

\* the keys whose first record came through the channel
Credited(returned, channel) ==
    { x \in FirstOffers(returned) : ChannelOf(fetchLog[x[1]].kind) = channel }

(* C26: with deduplicate=true each key increments the counter of exactly   *)
(* one channel, the first that contributed it (social before registry      *)
(* before indexer); later duplicates from any channel increment nothing.   *)
C26_FirstSeenWins ==
    (Done /\ Truthy(options.deduplicate)) =>
        \A c \in {"social", "registry", "indexer"} :
            sources[c] = Cardinality(Credited(Returned, c))

----------------------------------------------------------------------------
RECURSIVE ReportedBy(_)
\* how many attestations the indexers that answered have reported
ReportedBy(log) ==
    IF log = <<>> THEN 0
    ELSE (IF Head(log).kind = "indexer" /\ Head(log).outcome = "ok"
          THEN Len(Head(log).relevant) ELSE 0) + ReportedBy(Tail(log))

\* the record has the shape of an indexer's entry: witnessDid and uri, untagged
FromIndexer(a) == "witnessDid" \in DOMAIN a

(* C27: at every point of discoverAttestations and in its result, for both *)
(* deduplicate settings, attestations.length = sources.social +            *)
(* sources.registry; sources.indexer is the total number of attestations   *)
(* reported by the indexers queried successfully, and none of them is      *)
(* added to attestations.                                                  *)
C27_CountersMatchSet ==
    /\ Len(attestations) = sources.social + sources.registry
    /\ sources.indexer = ReportedBy(fetchLog)
    /\ \A k \in 1..Len(attestations) : ~FromIndexer(attestations[k])

\* the result of a run in which an indexer reported attestations and the
\* social channel contributed some
C27_Witness ==
    /\ Done
    /\ sources.indexer >= 2
    /\ sources.social >= 1
    /\ Len(attestations) >= 1
    /\ \E i \in LogIdx : fetchLog[i].kind = "indexer" /\ ~Failed(i) /\ Len(fetchLog[i].relevant) >= 1

----------------------------------------------------------------------------
\* the attestation is about the target agent
AboutTarget(a) == "subjectDid" \in DOMAIN a /\ a.subjectDid = Target

(* C28: every attestation in what discoverThroughSocialGraph,              *)
(* discoverThroughRegistry and discoverAttestations return has subjectDid  *)
(* exactly equal to the target agent's identifier.                         *)
C28_OnlyTheTarget ==
    /\ \A k \in 1..Len(attestations) : AboutTarget(attestations[k])
    /\ \A k \in 1..Len(chanAtts) : AboutTarget(chanAtts[k])
    /\ \A ik \in Offered : AboutTarget(RecordAt(ik))

\* a witness and a registry member both listed the page that also holds an
\* attestation about another agent, and the run returned attestations
C28_Witness ==
    /\ Done
    /\ Len(attestations) >= 5
    /\ \E i, j \in LogIdx :
          /\ fetchLog[i].kind = "witness" /\ Len(fetchLog[i].relevant) = 5
          /\ fetchLog[j].kind = "member" /\ Len(fetchLog[j].relevant) = 5

----------------------------------------------------------------------------
\* the record set getOperatorRecords handed to getCurrentOperator
FetchedSet == IF opFetch = "ok" THEN ValuesOf(opRepo) ELSE <<>>

(* C29: getCurrentOperator returns null if and only if the fetched record  *)
(* set is empty; for a non-empty set it returns exactly one record, a      *)
(* member of the input, and it never raises an exception for ambiguity     *)
(* (several candidate tips, or none).                                      *)
C29_NullIffEmpty ==
    /\ opFetch \in {"ok", "missing"} => opPc = "resolved"
    /\ opPc = "resolved" =>
          /\ opResult = <<>> <=> Len(FetchedSet) = 0
          /\ Len(FetchedSet) > 0 =>
                /\ Len(opResult) = 1
                /\ \E k \in 1..Len(FetchedSet) : opResult[1] = FetchedSet[k]

\* two records were fetched and the filter of line 102 left none of them
C29_Witness ==
    /\ Resolved
    /\ Len(opRepo) = 2
    /\ Unsuperseded(ValuesOf(opRepo)) = <<>>
    /\ opResult = <<opRepo[1].value>>

\* two records were fetched and both are candidate tips
C29_WitnessSeveralTips ==
    /\ Resolved
    /\ Len(opRepo) = 2
    /\ Len(Unsuperseded(ValuesOf(opRepo))) = 2
    /\ Len(opResult) = 1

----------------------------------------------------------------------------
\* getCurrentOperator resolves in this step, from a fetched record set
Resolves == opPc = "fetching" /\ opPc' = "resolved" /\ opFetch' = "ok"

(* C30: resolving the current operator leaves the input record set         *)
(* unchanged: the same records, in the same order and with the same        *)
(* content, are there after the call (non-tip records are neither removed  *)
(* nor reordered nor modified).                                            *)
C30_InputLeftUnchanged ==
    [][Resolves => /\ opRepo' = opRepo
                   /\ opRecords' = ValuesOf(opRepo)]_vars

\* resolved from two records, the first superseded and older than the second,
\* so that sorting them would have exchanged them
C30_Witness ==
    /\ Resolved
    /\ Len(opRepo) = 2
    /\ Len(Unsuperseded(ValuesOf(opRepo))) = 1
    /\ StableSort(ValuesOf(opRepo)) # ValuesOf(opRepo)
    /\ opResult = <<opRepo[2].value>>
    /\ opRecords = ValuesOf(opRepo)

====
